---- MODULE Spec2Model ----
(***************************************************************************)
(* Model of the raw pointer / raw slice extension traits of raw-rs         *)
(* (src/src/rawptr.rs, src/src/rawslice.rs).                               *)
(*                                                                         *)
(* Memory is a byte-addressed store holding the two arrays the unit tests  *)
(* use (x = [1,2,3,4], mutable, and y = [5,6,7,8], read-only).  A raw      *)
(* pointer is a byte address, a raw slice is the two-word fat pointer      *)
(* <<data, len>> that std::raw::Slice transmutes to.  usize / isize        *)
(* arithmetic keeps a (small) machine width so that the casts and the      *)
(* subtraction in the code can overflow.                                   *)
(***************************************************************************)
EXTENDS Integers, Sequences, FiniteSets, TLC

VARIABLES mem, call, overflow_checks

vars == <<mem, call, overflow_checks>>

(***************************************************************************)
(* Bounds of the model.                                                    *)
(***************************************************************************)
\* width of usize / isize / a pointer, in bits
UsizeBits == 5
\* size_of::<T>() in bytes
ElemSize == 2

Modulus == 2 ^ UsizeBits
Usize == 0 .. (Modulus - 1)
IsizeMin == 0 - (2 ^ (UsizeBits - 1))
IsizeMax == (2 ^ (UsizeBits - 1)) - 1

(***************************************************************************)
(* The arrays of the unit tests and where they live.                       *)
(***************************************************************************)
X0 == <<1, 2, 3, 4>>
Y0 == <<5, 6, 7, 8>>
\* other contents the mutable array may start with
XInits == {X0, <<4, 3, 2, 1>>, <<7, 7, 0, 9>>, <<300, 0, 513, 1>>}

XLen == Len(X0)
YLen == Len(Y0)
XBase == ElemSize
YBase == XBase + (XLen + 1) * ElemSize

XBytes == XBase .. (XBase + XLen * ElemSize - 1)
YBytes == YBase .. (YBase + YLen * ElemSize - 1)
Allocated == XBytes \cup YBytes

\* values and bytes the callers write
Vals == {2, 3, 300}
FillBytes == {0, 1}

(***************************************************************************)
(* Values of T as bytes (little endian).                                   *)
(***************************************************************************)
ByteOf(v, k) == (v \div (256 ^ k)) % 256

RECURSIVE DecodeFrom(_, _, _)
DecodeFrom(m, p, k) ==
    IF k = ElemSize THEN 0
    ELSE m[p + k] * (256 ^ k) + DecodeFrom(m, p, k + 1)

(***************************************************************************)
(* Machine integers.                                                       *)
(***************************************************************************)
Ok(v) == [ok |-> TRUE, val |-> v]
Panic == [ok |-> FALSE]

\* `count as isize`
AsIsize(count) == IF count > IsizeMax THEN count - Modulus ELSE count

\* unary minus on isize: overflows on isize::MIN
NegIsize(chk, d) ==
    IF d = IsizeMin THEN (IF chk THEN Panic ELSE Ok(IsizeMin)) ELSE Ok(0 - d)

\* `a - b` on usize
SubUsize(chk, a, b) ==
    IF a >= b THEN Ok(a - b)
    ELSE IF chk THEN Panic ELSE Ok((a - b) % Modulus)

\* pointer::offset, in units of T; an address is a machine word
offset(p, d) == (p + d * ElemSize) % Modulus

(***************************************************************************)
(* The std::ptr primitives the traits forward to.                          *)
(***************************************************************************)
\* ptr::copy: memmove of n bytes
MemMove(m, src, dst, n) ==
    [a \in DOMAIN m |->
        IF a >= dst /\ a < dst + n THEN m[src + (a - dst)] ELSE m[a]]

RECURSIVE CopyFwd(_, _, _, _, _)
CopyFwd(m, src, dst, n, k) ==
    IF k >= n THEN m
    ELSE CopyFwd([m EXCEPT ![dst + k] = m[src + k]], src, dst, n, k + 1)

RECURSIVE CopyBwd(_, _, _, _)
CopyBwd(m, src, dst, k) ==
    IF k <= 0 THEN m
    ELSE CopyBwd([m EXCEPT ![dst + k - 1] = m[src + k - 1]], src, dst, k - 1)

Overlap(src, dst, n) == n > 0 /\ src < dst + n /\ dst < src + n

\* ptr::copy_nonoverlapping: memcpy of n bytes; with overlapping spans the
\* result is whatever copy order the build's memcpy uses
MemCpyOutcomes(m, src, dst, n) ==
    IF Overlap(src, dst, n)
    THEN {MemMove(m, src, dst, n), CopyFwd(m, src, dst, n, 0), CopyBwd(m, src, dst, n)}
    ELSE {MemMove(m, src, dst, n)}

\* ptr::write_bytes: memset of n bytes
MemSet(m, dst, byte, n) ==
    [a \in DOMAIN m |-> IF a >= dst /\ a < dst + n THEN byte ELSE m[a]]

(***************************************************************************)
(* rawptr.rs: RawPtrExt for *const T and *mut T, RawMutPtrExt for *mut T.  *)
(* A slice reference &[T] is the record [ptr, len]; a raw slice *const [T] *)
(* or *mut [T] is the pair of words <<data, len>>.                         *)
(***************************************************************************)
\* mem::transmute of std::raw::Slice { data, len } (repr(C): data, then len)
TransmuteSlice(s) == <<s.data, s.len>>

\* as as_raw_slice, with the two words of the fat pointer in the wrong order
as_raw_slice_swapped(self, len) == <<len, self>>

as_raw_slice(self, len) == TransmuteSlice([data |-> self, len |-> len])

as_raw_mut_slice(self, len) == TransmuteSlice([data |-> self, len |-> len])

\* the elements a slice reference gives access to
Elems(m, ref) == [i \in 1 .. ref.len |-> DecodeFrom(m, ref.ptr + (i - 1) * ElemSize, 0)]

read(m, self) == DecodeFrom(m, self, 0)

const_add(self, count) == offset(self, AsIsize(count))

mut_add(self, count) == offset(self, AsIsize(count))

\* as const_sub, without the negation of the count
const_sub_no_negate(chk, self, count) == Ok(offset(self, AsIsize(count)))

const_sub(chk, self, count) ==
    LET d == NegIsize(chk, AsIsize(count))
    IN  IF d.ok THEN Ok(offset(self, d.val)) ELSE Panic

mut_sub(chk, self, count) ==
    LET d == NegIsize(chk, AsIsize(count))
    IN  IF d.ok THEN Ok(offset(self, d.val)) ELSE Panic

\* as const_copy, but copying front to back as a memcpy may
const_copy_forward(m, self, dest, count) == CopyFwd(m, self, dest, count * ElemSize, 0)

const_copy(m, self, dest, count) == MemMove(m, self, dest, count * ElemSize)

mut_copy(m, self, dest, count) == MemMove(m, self, dest, count * ElemSize)

const_copy_nonoverlapping(m, self, dest, count) ==
    MemCpyOutcomes(m, self, dest, count * ElemSize)

mut_copy_nonoverlapping(m, self, dest, count) ==
    MemCpyOutcomes(m, self, dest, count * ElemSize)

write(m, self, src) ==
    [a \in DOMAIN m |->
        IF a >= self /\ a < self + ElemSize THEN ByteOf(src, a - self) ELSE m[a]]

write_bytes(m, self, byte, count) == MemSet(m, self, byte, count * ElemSize)

\* as swap, without the temporary
swap_no_tmp(m, self, y) ==
    MemMove(MemMove(m, y, self, ElemSize), self, y, ElemSize)

\* ptr::swap: tmp <- *self; memmove(self <- y); *y <- tmp
swap(m, self, y) ==
    LET tmp == [k \in 0 .. (ElemSize - 1) |-> m[self + k]]
        m1  == MemMove(m, y, self, ElemSize)
    IN  [a \in DOMAIN m |->
            IF a >= y /\ a < y + ElemSize THEN tmp[a - y] ELSE m1[a]]

\* as replace, but returning the value just installed
replace_returns_new(m, self, src) ==
    [mem |-> [a \in DOMAIN m |->
                IF a >= self /\ a < self + ElemSize THEN ByteOf(src, a - self) ELSE m[a]],
     ret |-> src]

\* ptr::replace: mem::swap(&mut *self, &mut src); src
replace(m, self, src) ==
    LET local == [k \in 0 .. (ElemSize - 1) |-> ByteOf(src, k)]
        old   == [k \in 0 .. (ElemSize - 1) |-> m[self + k]]
    IN  [mem |-> [a \in DOMAIN m |->
                    IF a >= self /\ a < self + ElemSize THEN local[a - self] ELSE m[a]],
         ret |-> DecodeFrom(old, 0, 0)]

(***************************************************************************)
(* rawslice.rs: SliceRawExt, RawSlice, RawMutSlice.                        *)
(***************************************************************************)
as_raw(ref) == <<ref.ptr, ref.len>>

as_mut_raw(ref) == <<ref.ptr, ref.len>>

as_slice(self) == [ptr |-> self[1], len |-> self[2]]

as_mut_slice(self) == [ptr |-> self[1], len |-> self[2]]

len(self) == as_slice(self).len

as_ptr(self) == as_slice(self).ptr

as_mut_ptr(self) == as_mut_slice(self).ptr

\* RawPtrExt::as_slice, through RawSlice::as_slice
ptr_as_slice(self, n) == as_slice(as_raw_slice(self, n))

ptr_as_mut_slice(self, n) == as_mut_slice(as_raw_mut_slice(self, n))

slice_read(m, self, index) == read(m, const_add(as_ptr(self), index))

slice_get(m, self, index) == DecodeFrom(m, const_add(as_ptr(self), index), 0)

get_mut(m, self, index) == DecodeFrom(m, mut_add(as_mut_ptr(self), index), 0)

\* as const_slice, with `to` taken for the length
const_slice_len_to(chk, self, from, to) ==
    Ok(as_raw_slice(const_add(as_ptr(self), from), to))

const_slice(chk, self, from, to) ==
    LET n == SubUsize(chk, to, from)
    IN  IF n.ok THEN Ok(as_raw_slice(const_add(as_ptr(self), from), n.val)) ELSE Panic

mut_slice(chk, self, from, to) ==
    LET n == SubUsize(chk, to, from)
    IN  IF n.ok THEN Ok(as_raw_mut_slice(mut_add(as_mut_ptr(self), from), n.val)) ELSE Panic

\* the impl the trait's provided methods dispatch to
slice(mutable, chk, self, from, to) ==
    IF mutable THEN mut_slice(chk, self, from, to) ELSE const_slice(chk, self, from, to)

slice_to(mutable, chk, self, to) == slice(mutable, chk, self, 0, to)

slice_from(mutable, chk, self, from) == slice(mutable, chk, self, from, len(self))

\* as slice_write, with the index checked against the declared length
slice_write_checked(m, self, index, val) ==
    IF index < len(self) THEN write(m, mut_add(as_mut_ptr(self), index), val) ELSE m

slice_write(m, self, index, val) == write(m, mut_add(as_mut_ptr(self), index), val)

\* as slice_write_bytes, with the length taken for a byte count
slice_write_bytes_as_bytes(m, self, byte) == MemSet(m, as_mut_ptr(self), byte, len(self))

slice_write_bytes(m, self, byte) == write_bytes(m, as_mut_ptr(self), byte, len(self))

\* as slice_copy, with the length of the target
slice_copy_target_len(m, self, from) ==
    const_copy(m, as_ptr(from), as_mut_ptr(self), len(self))

slice_copy(m, self, from) == const_copy(m, as_ptr(from), as_mut_ptr(self), len(from))

slice_copy_nonoverlapping(m, self, from) ==
    const_copy_nonoverlapping(m, as_ptr(from), as_mut_ptr(self), len(from))

(***************************************************************************)
(* The callers: addresses, regions and containers the operations are       *)
(* applied to.  Accesses stay inside the array the pointer was derived     *)
(* from; pure address arithmetic and slicing take any count.               *)
(***************************************************************************)
XPtr(i) == XBase + i * ElemSize
YPtr(i) == YBase + i * ElemSize

\* index of an element address inside its array
XIdx(p) == (p - XBase) \div ElemSize
YIdx(p) == (p - YBase) \div ElemSize

\* [p, p + count) is a span of whole elements of x (of y)
InX(p, count) ==
    /\ p >= XBase
    /\ (p - XBase) % ElemSize = 0
    /\ XIdx(p) + count <= XLen
InY(p, count) ==
    /\ p >= YBase
    /\ (p - YBase) % ElemSize = 0
    /\ YIdx(p) + count <= YLen
InObject(p, count) == InX(p, count) \/ InY(p, count)

XPtrs == {XPtr(i) : i \in 0 .. XLen}
YPtrs == {YPtr(i) : i \in 0 .. YLen}

\* raw slices whose declared length fits the array
XRegions == {<<XPtr(i), n>> : i \in 0 .. XLen, n \in 0 .. XLen} \cap
            {r \in XPtrs \X (0 .. XLen) : InX(r[1], r[2])}
YRegions == {<<YPtr(i), n>> : i \in 0 .. YLen, n \in 0 .. YLen} \cap
            {r \in YPtrs \X (0 .. YLen) : InY(r[1], r[2])}

\* slice references (containers): &x[i..i+n], &y[i..i+n]
XRefs == {[ptr |-> r[1], len |-> r[2]] : r \in XRegions}
YRefs == {[ptr |-> r[1], len |-> r[2]] : r \in YRegions}

\* counts handed to add, sub and slice
Counts == (0 .. (XLen + 1)) \cup {IsizeMax, IsizeMax + 1, Modulus - 1}

InitMem(xs) ==
    [a \in Allocated |->
        IF a \in XBytes
        THEN ByteOf(xs[XIdx(a) + 1], (a - XBase) % ElemSize)
        ELSE ByteOf(Y0[YIdx(a) + 1], (a - YBase) % ElemSize)]

\* the arrays as their owner sees them
XView(m) == [i \in 1 .. XLen |-> DecodeFrom(m, XPtr(i - 1), 0)]
YView(m) == [i \in 1 .. YLen |-> DecodeFrom(m, YPtr(i - 1), 0)]

Init ==
    /\ mem \in {InitMem(xs) : xs \in XInits}
    /\ call = [op |-> "init"]
    /\ overflow_checks \in BOOLEAN

(***************************************************************************)
(* Memory operations (Spec).                                               *)
(***************************************************************************)
\* one operation is applied to the memory Init drew
Idle == call.op = "init"

Did(c, m) ==
    /\ call' = c
    /\ mem' = m
    /\ UNCHANGED overflow_checks

Read ==
    /\ Idle
    /\ \E p \in XPtrs \cup YPtrs :
        /\ InObject(p, 1)
        /\ Did([op |-> "read", pre |-> mem, p |-> p, ret |-> read(mem, p)], mem)

Write ==
    /\ Idle
    /\ \E p \in XPtrs, v \in Vals :
        /\ InX(p, 1)
        /\ Did([op |-> "write", pre |-> mem, p |-> p, v |-> v], write(mem, p, v))

WriteBytes ==
    /\ Idle
    /\ \E p \in XPtrs, b \in FillBytes, n \in 0 .. XLen :
        /\ InX(p, n)
        /\ Did([op |-> "write_bytes", pre |-> mem, p |-> p, byte |-> b, count |-> n],
               write_bytes(mem, p, b, n))

Swap ==
    /\ Idle
    /\ \E a \in XPtrs, b \in XPtrs :
        /\ InX(a, 1) /\ InX(b, 1)
        /\ Did([op |-> "swap", pre |-> mem, a |-> a, b |-> b], swap(mem, a, b))

Replace ==
    /\ Idle
    /\ \E p \in XPtrs, v \in Vals :
        /\ InX(p, 1)
        /\ LET r == replace(mem, p, v)
           IN  Did([op |-> "replace", pre |-> mem, p |-> p, v |-> v, ret |-> r.ret], r.mem)

Copy ==
    /\ Idle
    /\ \E mutable \in BOOLEAN, src \in XPtrs \cup YPtrs, dst \in XPtrs, n \in 0 .. XLen :
        /\ InObject(src, n) /\ InX(dst, n)
        /\ mutable => InX(src, n)
        /\ Did([op |-> "copy", pre |-> mem, mutable |-> mutable,
                src |-> src, dst |-> dst, count |-> n],
               IF mutable THEN mut_copy(mem, src, dst, n) ELSE const_copy(mem, src, dst, n))

CopyNonoverlapping ==
    /\ Idle
    /\ \E mutable \in BOOLEAN, src \in XPtrs \cup YPtrs, dst \in XPtrs, n \in 0 .. XLen :
        /\ InObject(src, n) /\ InX(dst, n)
        /\ mutable => InX(src, n)
        /\ \E m2 \in (IF mutable THEN mut_copy_nonoverlapping(mem, src, dst, n)
                                 ELSE const_copy_nonoverlapping(mem, src, dst, n)) :
              Did([op |-> "copy_nonoverlapping", pre |-> mem, mutable |-> mutable,
                   src |-> src, dst |-> dst, count |-> n], m2)

SliceRead ==
    /\ Idle
    /\ \E r \in XRegions \cup YRegions, k \in 0 .. XLen :
        /\ InObject(as_ptr(r), k + 1)
        /\ Did([op |-> "slice_read", pre |-> mem, r |-> r, index |-> k,
                ret |-> slice_read(mem, r, k), got |-> slice_get(mem, r, k)], mem)

SliceWrite ==
    /\ Idle
    /\ \E r \in XRegions, k \in 0 .. XLen, v \in Vals :
        /\ InX(as_mut_ptr(r), k + 1)
        /\ Did([op |-> "slice_write", pre |-> mem, r |-> r, index |-> k, v |-> v],
               slice_write(mem, r, k, v))

SliceWriteBytes ==
    /\ Idle
    /\ \E r \in XRegions, b \in FillBytes :
        Did([op |-> "slice_write_bytes", pre |-> mem, r |-> r, byte |-> b],
            slice_write_bytes(mem, r, b))

SliceCopy ==
    /\ Idle
    /\ \E r \in XRegions, from \in XRegions \cup YRegions :
        /\ InX(as_mut_ptr(r), len(from))
        /\ Did([op |-> "slice_copy", pre |-> mem, r |-> r, from |-> from],
               slice_copy(mem, r, from))

SliceCopyNonoverlapping ==
    /\ Idle
    /\ \E r \in XRegions, from \in XRegions \cup YRegions :
        /\ InX(as_mut_ptr(r), len(from))
        /\ \E m2 \in slice_copy_nonoverlapping(mem, r, from) :
              Did([op |-> "slice_copy_nonoverlapping", pre |-> mem, r |-> r, from |-> from],
                  m2)

\* container -> raw slice -> slice reference, and pointer + length -> slice reference
Convert ==
    /\ Idle
    /\ \E mutable \in BOOLEAN, c \in XRefs \cup YRefs :
        /\ mutable => c \in XRefs
        /\ LET raw == IF mutable THEN as_mut_raw(c) ELSE as_raw(c)
           IN  Did([op |-> "convert", pre |-> mem, mutable |-> mutable, c |-> c,
                    raw |-> raw,
                    ptr |-> IF mutable THEN as_mut_ptr(raw) ELSE as_ptr(raw),
                    len |-> len(raw),
                    back |-> IF mutable THEN as_mut_slice(raw) ELSE as_slice(raw),
                    viaptr |-> IF mutable
                               THEN ptr_as_mut_slice(as_mut_ptr(raw), c.len)
                               ELSE ptr_as_slice(as_ptr(raw), c.len)],
                   mem)

Next ==
    \/ Read
    \/ Write
    \/ WriteBytes
    \/ Swap
    \/ Replace
    \/ Copy
    \/ CopyNonoverlapping
    \/ SliceRead
    \/ SliceWrite
    \/ SliceWriteBytes
    \/ SliceCopy
    \/ SliceCopyNonoverlapping
    \/ Convert

Spec == Init /\ [][Next]_vars

(***************************************************************************)
(* Address arithmetic and slicing (SpecPtr): no memory is touched.         *)
(***************************************************************************)
AllRegions(mutable) == IF mutable THEN XRegions ELSE XRegions \cup YRegions
AllPtrs(mutable) == IF mutable THEN XPtrs ELSE XPtrs \cup YPtrs

Add ==
    /\ Idle
    /\ \E mutable \in BOOLEAN, n \in Counts :
        \E p \in AllPtrs(mutable) :
            Did([op |-> "add", mutable |-> mutable, p |-> p, count |-> n,
                 ret |-> IF mutable THEN mut_add(p, n) ELSE const_add(p, n)], mem)

Sub ==
    /\ Idle
    /\ \E mutable \in BOOLEAN, n \in Counts :
        \E p \in AllPtrs(mutable) :
            Did([op |-> "sub", mutable |-> mutable, p |-> p, count |-> n,
                 ret |-> IF mutable THEN mut_sub(overflow_checks, p, n)
                                    ELSE const_sub(overflow_checks, p, n)], mem)

\* p.add(n).sub(k), as test_arithmetic chains them
AddSub ==
    /\ Idle
    /\ \E mutable \in BOOLEAN, n \in Counts, k \in Counts :
        \E p \in AllPtrs(mutable) :
            LET q == IF mutable THEN mut_add(p, n) ELSE const_add(p, n)
            IN  Did([op |-> "add_sub", mutable |-> mutable, p |-> p, count |-> n,
                     back |-> k, mid |-> q,
                     ret |-> IF mutable THEN mut_sub(overflow_checks, q, k)
                                        ELSE const_sub(overflow_checks, q, k)], mem)

Slice ==
    /\ Idle
    /\ \E mutable \in BOOLEAN, from \in Counts, to \in Counts :
        \E r \in AllRegions(mutable) :
            Did([op |-> "slice", mutable |-> mutable, r |-> r, from |-> from, to |-> to,
                 ret |-> slice(mutable, overflow_checks, r, from, to)], mem)

SliceTo ==
    /\ Idle
    /\ \E mutable \in BOOLEAN, to \in Counts :
        \E r \in AllRegions(mutable) :
            Did([op |-> "slice_to", mutable |-> mutable, r |-> r, to |-> to,
                 ret |-> slice_to(mutable, overflow_checks, r, to)], mem)

SliceFrom ==
    /\ Idle
    /\ \E mutable \in BOOLEAN, from \in Counts :
        \E r \in AllRegions(mutable) :
            Did([op |-> "slice_from", mutable |-> mutable, r |-> r, from |-> from,
                 ret |-> slice_from(mutable, overflow_checks, r, from)], mem)

NextPtr ==
    \/ Add
    \/ Sub
    \/ AddSub
    \/ Slice
    \/ SliceTo
    \/ SliceFrom

SpecPtr == Init /\ [][NextPtr]_vars

(***************************************************************************)
(* Properties.                                                             *)
(***************************************************************************)
ValAt(m, p) == DecodeFrom(m, p, 0)

\* every byte outside [lo, hi) is as it was before the call
FrameOutside(lo, hi) ==
    \A a \in Allocated : (a < lo \/ a >= hi) => mem[a] = call.pre[a]

\* the array a pointer was derived from
ObjBase(p) == IF p \in XPtrs THEN XBase ELSE YBase
ObjLen(p) == IF p \in XPtrs THEN XLen ELSE YLen
ObjIdx(p) == (p - ObjBase(p)) \div ElemSize

\* the elements of a container, read through its owner's array
ContainerElems(m, c) ==
    [i \in 1 .. c.len |->
        IF c.ptr \in XPtrs THEN XView(m)[XIdx(c.ptr) + i] ELSE YView(m)[YIdx(c.ptr) + i]]

\* C1: pointer copy(dest, count) is a memmove: dest[i] gets the value src[i]
\* held before the call for every i < count, overlapping or not, and nothing
\* outside dest[0..count) changes.
C1_CopyIsMemmove ==
    call.op = "copy" =>
        /\ \A i \in 0 .. (call.count - 1) :
              ValAt(mem, call.dst + i * ElemSize) = ValAt(call.pre, call.src + i * ElemSize)
        /\ FrameOutside(call.dst, call.dst + call.count * ElemSize)

C1_Witness ==
    /\ call.op = "copy"
    /\ call.pre = InitMem(X0)
    /\ call.src = XPtr(1) /\ call.dst = XPtr(0) /\ call.count = 2
    /\ XView(mem) = <<2, 3, 3, 4>>

\* C2: add and sub move an address by whole elements and sub undoes add, for
\* read-only and mutable addresses alike, whenever every result stays inside
\* the array or one past its end.
C2_AddSubElementUnits ==
    /\ call.op = "add" =>
          (ObjIdx(call.p) + call.count <= ObjLen(call.p) =>
              call.ret = ObjBase(call.p) + (ObjIdx(call.p) + call.count) * ElemSize)
    /\ call.op = "sub" =>
          (call.count <= ObjIdx(call.p) =>
              call.ret = Ok(ObjBase(call.p) + (ObjIdx(call.p) - call.count) * ElemSize))
    /\ call.op = "add_sub" =>
          ((ObjIdx(call.p) + call.count <= ObjLen(call.p)
              /\ call.back <= ObjIdx(call.p) + call.count) =>
              /\ call.mid = ObjBase(call.p) + (ObjIdx(call.p) + call.count) * ElemSize
              /\ call.ret = Ok(ObjBase(call.p)
                                + (ObjIdx(call.p) + call.count - call.back) * ElemSize)
              /\ (call.back = call.count => call.ret.val = call.p))

C2_Witness ==
    /\ call.op = "add_sub"
    /\ mem = InitMem(X0)
    /\ call.p = XPtr(0) /\ call.count = 2 /\ call.back = 1
    /\ ValAt(mem, call.mid) = 3
    /\ call.ret.ok /\ ValAt(mem, call.ret.val) = 2

\* C3: swap exchanges the values at the two addresses and changes nothing
\* else; swapping an address with itself leaves memory as it was.
C3_SwapExchanges ==
    call.op = "swap" =>
        /\ ValAt(mem, call.a) = ValAt(call.pre, call.b)
        /\ ValAt(mem, call.b) = ValAt(call.pre, call.a)
        /\ \A a \in Allocated :
              ((a < call.a \/ a >= call.a + ElemSize) /\ (a < call.b \/ a >= call.b + ElemSize))
                  => mem[a] = call.pre[a]
        /\ (call.a = call.b => mem = call.pre)

C3_Witness ==
    /\ call.op = "swap"
    /\ call.pre = InitMem(X0)
    /\ call.a = XPtr(0) /\ call.b = XPtr(1)
    /\ XView(mem) = <<2, 1, 3, 4>>

\* C4: replace(value) returns what read() returned before the call and leaves
\* memory as write(value) would: value at the address, all else unchanged.
C4_ReplaceIsReadThenWrite ==
    call.op = "replace" =>
        /\ call.ret = read(call.pre, call.p)
        /\ call.ret = ValAt(call.pre, call.p)
        /\ mem = write(call.pre, call.p, call.v)
        /\ ValAt(mem, call.p) = call.v
        /\ FrameOutside(call.p, call.p + ElemSize)

C4_Witness ==
    /\ call.op = "replace"
    /\ call.pre = InitMem(X0)
    /\ call.p = XPtr(0) /\ call.v = 3
    /\ call.ret = 1
    /\ XView(mem) = <<3, 2, 3, 4>>

\* C5: indexed access of a region ignores its declared length: write(k, v)
\* stores v at base.add(k) and nowhere else, read(k) and get(k) then return v,
\* and neither depends on the declared length, also for k >= length.
C5_IndexIgnoresLength ==
    /\ call.op = "slice_write" =>
          /\ ValAt(mem, call.r[1] + call.index * ElemSize) = call.v
          /\ FrameOutside(call.r[1] + call.index * ElemSize,
                          call.r[1] + (call.index + 1) * ElemSize)
          /\ slice_read(mem, call.r, call.index) = call.v
          /\ slice_get(mem, call.r, call.index) = call.v
          /\ \A n \in 0 .. XLen :
                /\ slice_write(call.pre, <<call.r[1], n>>, call.index, call.v) = mem
                /\ slice_read(mem, <<call.r[1], n>>, call.index) = call.v
    /\ call.op = "slice_read" =>
          /\ call.ret = ValAt(call.pre, call.r[1] + call.index * ElemSize)
          /\ call.got = call.ret
          /\ mem = call.pre

C5_Witness ==
    /\ call.op = "slice_write"
    /\ call.pre = InitMem(X0)
    /\ call.r = <<XPtr(0), 1>> /\ call.index = 3 /\ call.v = 300
    /\ call.index >= len(call.r)
    /\ XView(mem) = <<1, 2, 3, 300>>

\* the elements of a raw slice, through the slice reference it converts to
RegionElems(m, r) == Elems(m, as_slice(r))

\* C6: for from <= to <= length, slice(from, to) is the region at base.add(from)
\* of length to - from, whose element i is the sliced region's element from + i;
\* slice_to(k) is slice(0, k) and slice_from(k) is slice(k, length); read-only
\* and mutable regions alike.
C6_Slicing ==
    /\ call.op = "slice" =>
          ((call.from <= call.to /\ call.to <= len(call.r)) =>
              /\ call.ret = Ok(<<call.r[1] + call.from * ElemSize, call.to - call.from>>)
              /\ len(call.ret.val) = call.to - call.from
              /\ \A i \in 1 .. (call.to - call.from) :
                    RegionElems(mem, call.ret.val)[i] = RegionElems(mem, call.r)[call.from + i])
    /\ call.op = "slice_to" =>
          (call.to <= len(call.r) =>
              /\ call.ret = Ok(<<call.r[1], call.to>>)
              /\ call.ret = slice(call.mutable, overflow_checks, call.r, 0, call.to))
    /\ call.op = "slice_from" =>
          (call.from <= len(call.r) =>
              /\ call.ret = Ok(<<call.r[1] + call.from * ElemSize, len(call.r) - call.from>>)
              /\ call.ret = slice(call.mutable, overflow_checks, call.r, call.from, len(call.r)))

C6_Witness ==
    /\ call.op = "slice"
    /\ mem = InitMem(X0)
    /\ call.r = <<XPtr(0), XLen>> /\ call.from = 1 /\ call.to = 3
    /\ call.ret.ok
    /\ len(call.ret.val) = 2
    /\ RegionElems(mem, call.ret.val) = <<2, 3>>

\* target element i holds the source's element i of before the call for every
\* i < from.len(), and nothing else of memory changed
CopiedFrom ==
    /\ \A i \in 0 .. (len(call.from) - 1) :
          ValAt(mem, call.r[1] + i * ElemSize) = ValAt(call.pre, call.from[1] + i * ElemSize)
    /\ FrameOutside(call.r[1], call.r[1] + len(call.from) * ElemSize)

\* C7 as claimed: region copy and copy_nonoverlapping both transfer exactly
\* from.len() elements to the target's base, whatever the target's length.
C7_AsClaimed ==
    call.op \in {"slice_copy", "slice_copy_nonoverlapping"} => CopiedFrom

\* C7: region copy transfers exactly from.len() elements to the target's base,
\* whatever the target's declared length; copy_nonoverlapping does the same
\* when the source and target spans are disjoint.
C7_RegionCopy ==
    /\ call.op = "slice_copy" => CopiedFrom
    /\ call.op = "slice_copy_nonoverlapping" =>
          (~Overlap(call.from[1], call.r[1], len(call.from) * ElemSize) => CopiedFrom)

C7_Witness ==
    /\ call.op = "slice_copy_nonoverlapping"
    /\ call.pre = InitMem(X0)
    /\ call.from = <<YPtr(0), YLen>>
    /\ call.r = <<XPtr(0), 1>>
    /\ len(call.from) > len(call.r)
    /\ XView(mem) = <<5, 6, 7, 8>>

\* C8: region write_bytes(byte) sets every byte of elements 0 .. length-1 to
\* byte (so byte 0 zeroes them), leaves everything else, and a region of
\* length 0 changes nothing.
C8_WriteBytesFillsRegion ==
    call.op = "slice_write_bytes" =>
        /\ \A a \in Allocated :
              (a >= call.r[1] /\ a < call.r[1] + len(call.r) * ElemSize) => mem[a] = call.byte
        /\ FrameOutside(call.r[1], call.r[1] + len(call.r) * ElemSize)
        /\ call.byte = 0 => \A i \in 1 .. len(call.r) : RegionElems(mem, call.r)[i] = 0
        /\ len(call.r) = 0 => mem = call.pre

C8_Witness ==
    /\ call.op = "slice_write_bytes"
    /\ call.pre = InitMem(X0)
    /\ call.r = <<XPtr(0), XLen>> /\ call.byte = 0
    /\ XView(mem) = <<0, 0, 0, 0>>

\* C9: a container converts to a region with its first element's address and
\* its length; that region, or the address paired with the length, converts
\* back to a view with the container's elements; a write through the mutable
\* region shows in the container.
C9_ConversionRoundTrip ==
    /\ call.op = "convert" =>
          /\ call.ptr = call.c.ptr
          /\ call.len = call.c.len
          /\ call.back.ptr = call.c.ptr /\ call.back.len = call.c.len
          /\ call.viaptr.ptr = call.c.ptr /\ call.viaptr.len = call.c.len
          /\ Elems(mem, call.back) = ContainerElems(mem, call.c)
          /\ Elems(mem, call.viaptr) = ContainerElems(mem, call.c)
          /\ mem = call.pre
    /\ call.op = "slice_write" =>
          \A c \in XRefs :
              (as_mut_raw(c) = call.r /\ call.index < c.len) =>
                  ContainerElems(mem, c)[call.index + 1] = call.v

C9_Witness ==
    /\ call.op = "convert"
    /\ mem = InitMem(X0)
    /\ call.mutable
    /\ call.c = [ptr |-> XPtr(0), len |-> XLen]
    /\ call.raw = <<XPtr(0), XLen>>
    /\ Elems(mem, call.back) = <<1, 2, 3, 4>>
    /\ Elems(mem, call.viaptr) = <<1, 2, 3, 4>>

\* C10: no operation signals a fault: add, sub and slice return an address or
\* a region for any counts, also for from > to.
C10_NoFault ==
    call.op \in {"sub", "add_sub", "slice", "slice_to", "slice_from"} => call.ret.ok

====
